---- MODULE Spec2Model ----
(***************************************************************************)
(* A model of udemy-py's main.py: the paginated fetch of the curriculum     *)
(* listing (Udemy.fetch_course_curriculum), its fold into chapters         *)
(* (Udemy.organize_curriculum), the cache file (--load and --save in       *)
(* main) and the download orchestrator (Udemy.download_course with its     *)
(* nested process_lecture, run by a concurrent.futures.ThreadPoolExecutor).*)
(*                                                                         *)
(* SpecOrg runs organize_curriculum on every bounded input sequence.       *)
(* Spec runs download_course on every bounded curriculum.                  *)
(* SpecInt is Spec with a user interrupt.                                  *)
(* SpecMain runs main() from the resolution of the course id on.           *)
(***************************************************************************)
EXTENDS Integers, Sequences, FiniteSets, TLC

VARIABLES
    \* ---- organize_curriculum ----
    results,          \* the flat item list handed to organize_curriculum
    oi,               \* position of the for loop over results (next item)
    current_chapter,  \* index in curriculum of the chapter dict it aliases; 0 is None
    total_lectures,
    num_chapters,     \* len(curriculum) as reported at the end; -1 before that
    warnings,         \* number of "without a parent chapter" warnings logged
    orgpc,            \* "idle" | "loop" | "returned"
    \* ---- shared: the list organize builds and download_course walks ----
    curriculum,
    \* ---- process-wide configuration set by main() ----
    key,              \* the global key: "None" or a "kid:kv" string
    \* ---- download_course, main thread ----
    mainpc,           \* "for_chapter" | "submit" | "result" | "shutdown" |
                      \* "returned" | "raised" | "interrupted"
    mindex,
    chapter,          \* the loop variable chapter, as an index in curriculum; 0 is unbound
    folder_path,
    lindex,
    lpos,             \* position of the for loop over chapter['children'] (next child)
    futures,          \* the list futures, as lecture ids
    jpos,             \* position of the for loop over futures (next future)
    exc,              \* the exception travelling out of the with block, or "None"
    \* ---- the ThreadPoolExecutor ----
    queue,            \* its work queue, FIFO, as lecture ids
    future,           \* per submitted call: [state, exception]
    work,             \* per submitted call: the arguments bound by executor.submit
    frame,            \* per running call: the locals of process_lecture and what it did
    dirs,             \* the directories that exist under COURSE_DIR
    \* ---- main() ----
    runpc,            \* "idle" | "course_id" | "course" | "curriculum" | "fetch" |
                      \* "organize" | "save" | "download" | "done" | "exit1" | "crash"
    args,             \* args.load and args.save: "None", "True" or a path
    files,            \* the two cache files: whether each exists, and its text
    course_curriculum,\* the local of main(), as a JSON value
    runlog,           \* what main() has logged about the cache
    \* ---- fetch_course_curriculum ----
    reqlog,           \* the calls of Udemy.request made by the main thread
    server,           \* the listing the platform holds and its page size
    url,              \* the page to request next; page 1 is CURRICULUM_URL, 0 is None
    all_results,
    total_count

orgVars == <<results, oi, current_chapter, total_lectures, num_chapters, warnings, orgpc>>
cfgVars == <<key>>
mainVars == <<mainpc, mindex, chapter, folder_path, lindex, lpos, futures, jpos, exc>>
poolVars == <<queue, future, work, frame, dirs>>
dlVars == <<cfgVars, mainVars, poolVars>>
runVars == <<runpc, args, files, course_curriculum, runlog>>
fetchVars == <<reqlog, server, url, all_results, total_count>>
vars == <<orgVars, curriculum, dlVars, runVars, fetchVars>>

(***************************************************************************)
(* Bounds of the model.                                                    *)
(***************************************************************************)
MaxItems == 5       \* length of the listing given to organize_curriculum
MaxChapters == 2    \* chapters of a curriculum given to download_course
MaxChildren == 2    \* children of one chapter
MaxThreads == 2     \* largest --threads value
MaxSources == 2     \* entries of asset.media_sources
MaxListed == 2      \* items of the listing the platform holds
MaxPageSize == 2    \* items of one page of the listing
MaxCachedChapters == 1   \* chapters of a curriculum kept in a cache file
MaxCachedChildren == 1   \* children of one chapter in a cache file

Min(S) == CHOOSE x \in S : \A y \in S : x <= y

SeqsUpTo(S, n) == UNION {[1..k -> S] : k \in 0..n}

(***************************************************************************)
(* Udemy.organize_curriculum                                               *)
(***************************************************************************)
\* The _class tags of the listing; "quiz" stands for every tag the fold ignores.
ItemClasses == {"chapter", "lecture", "practice", "quiz"}

\* A listing: every item carries its _class and an id unique in the listing
\* (here its position).
Listings ==
    {[i \in 1..Len(cs) |-> [id |-> i, class |-> cs[i]]] : cs \in SeqsUpTo(ItemClasses, MaxItems)}

\* The dict built for a chapter item (title, description and is_published are
\* copied along and read by nothing modelled here).
NewChapter(item) == [id |-> item.id, children |-> <<>>]

\* A mutation of AppendChild: the child is put in front of its siblings.
AppendChildInFront(cur, c, item) ==
    [cur EXCEPT ![c].children = <<item>> \o @]

\* A mutation of AppendChild: the child goes to the first chapter, not the open one.
AppendChildToFirst(cur, c, item) ==
    [cur EXCEPT ![1].children = Append(@, item)]

\* current_chapter['children'].append(item); current_chapter aliases curriculum[c].
AppendChild(cur, c, item) ==
    [cur EXCEPT ![c].children = Append(@, item)]

\* A mutation of CountsAsLecture: practice items are counted too.
CountsPracticeToo(item) == item.class \in {"lecture", "practice"}

\* if item['_class'] == 'lecture': total_lectures += 1
CountsAsLecture(item) == item.class = "lecture"

(***************************************************************************)
(* main(): the arguments, the cache files, the platform                    *)
(***************************************************************************)
\* The values of args.load and of args.save (nargs='?', const=True): None
\* without the option, True with the bare option, the path given otherwise.
ExplicitPath == "cache.json"
ArgValues == {"None", "True", ExplicitPath}

\* os.path.join(HOME_DIR, "course.json")
DefaultPath == "course.json"
Paths == {DefaultPath, ExplicitPath}

\* The file the option stands for.
PathOf(arg) == IF arg = "True" THEN DefaultPath ELSE arg

\* A file nothing has looked at yet, a file that is not there, a file with a text.
UnknownFile == [exists |-> "unknown", text |-> <<>>]
AbsentFile == [exists |-> "no", text |-> <<>>]
FileWith(text) == [exists |-> "yes", text |-> text]

ErrMalformed == "error: curriculum file malformed or corrupted"
ErrNotLocated == "error: curriculum file could not be located"
WarnOverwrite == "warning: curriculum file already exists, overwriting"
InfoLoaded == "info: curriculum loaded"
InfoSaved == "info: curriculum saved"

\* The listing the platform holds for the course, and the size of its pages;
\* nothing is known of it before the first request.
NoServer == [listing |-> <<>>, page_size |-> 0]
Servers ==
    {[listing |-> [i \in 1..Len(cs) |-> [id |-> i, class |-> cs[i]]], page_size |-> n]
        : cs \in SeqsUpTo(ItemClasses, MaxListed), n \in 1..MaxPageSize}

\* The chain of pages of a listing: page p holds the p-th slice, and its
\* "next" is page p + 1, or None (0) on the last page.  An empty listing is
\* one empty page.
NumPages(srv) ==
    IF srv.listing = <<>> THEN 1
    ELSE (Len(srv.listing) + srv.page_size - 1) \div srv.page_size

PageResults(srv, p) ==
    SubSeq(srv.listing, (p - 1) * srv.page_size + 1,
           Min({p * srv.page_size, Len(srv.listing)}))

PageNext(srv, p) == IF p < NumPages(srv) THEN p + 1 ELSE 0

\* The "count" a page reports: the number of items of the listing; a later
\* page may report another number (the listing on the platform has changed
\* since the first page was served).
PageCounts(srv, p) ==
    IF p = 1 THEN {Len(srv.listing)} ELSE {Len(srv.listing), Len(srv.listing) + 1}

\* The decoded bodies the listing endpoint can answer page p with.
NotFoundBody == [detail |-> "Not found.", count |-> 0, results |-> <<>>, next |-> 0]
PageBodies(srv, p) ==
    {[detail |-> "None", count |-> n, results |-> PageResults(srv, p),
      next |-> PageNext(srv, p)] : n \in PageCounts(srv, p)}
    \cup {NotFoundBody}

\* A mutation of IsNotFound: the marker is not looked at.
IsNotFoundNever(response) == FALSE

\* response.get('detail') == 'Not found.'
IsNotFound(response) == response.detail = "Not found."

\* A mutation of ExtendResults: the page replaces what was accumulated.
ReplaceResults(acc, page) == page

\* all_results.extend(results)
ExtendResults(acc, page) == acc \o page

\* Udemy.request(url): one call of requests.get; its exception is logged and
\* swallowed, and the function then ends without a return statement: the
\* caller gets None.
request(transport) ==
    [attempts |-> 1,
     outcome |-> "returned",
     value |-> IF transport = "ok" THEN "response" ELSE "None"]

\* An entry of reqlog: the endpoint and the page asked for, how the transport
\* went, what request() did, and the detail and the count of the body when
\* there was one.
Requested(endpoint, page, transport, detail, count) ==
    [endpoint |-> endpoint, page |-> page, transport |-> transport,
     call |-> request(transport), detail |-> detail, count |-> count]

(***************************************************************************)
(* The cache file: json.dump and json.load                                 *)
(***************************************************************************)
\* A JSON value as Python holds it: a list, a dict (its members in insertion
\* order), an int or a str.
Arr(items) == [t |-> "array", v |-> items]
Obj(members) == [t |-> "object", v |-> members]
Num(n) == [t |-> "number", v |-> n]
Str(s) == [t |-> "string", v |-> s]
Member(k, val) == [k |-> k, val |-> val]

\* The strings and the numbers that occur in a curriculum: the keys of a
\* chapter and of a child, the _class tags, and the ids.
JsonStrings == {"id", "children", "_class"} \cup ItemClasses
JsonNumbers == 0..(10 * MaxCachedChapters + MaxCachedChildren)

\* The text of a file is a sequence of tokens: the brackets, the string
\* literals (in quotes) and the number literals (in decimal).  The separators
\* and the indentation of json.dump(..., indent=4) carry nothing and are left out.
Quote(s) == "\"" \o s \o "\""
StringTokens == {Quote(s) : s \in JsonStrings}
NumberTokens == {ToString(n) : n \in JsonNumbers}
StringOfToken == [tok \in StringTokens |-> CHOOSE s \in JsonStrings : Quote(s) = tok]
NumberOfToken == [tok \in NumberTokens |-> CHOOSE n \in JsonNumbers : ToString(n) = tok]
IsStringToken(tok) == tok \in StringTokens
Unquote(tok) == StringOfToken[tok]
IsNumberToken(tok) == tok \in NumberTokens
ParseInt(tok) == NumberOfToken[tok]

RECURSIVE JsonDump(_)
\* json.dump(value, f): the text written for a value.
JsonDump(value) ==
    LET RECURSIVE DumpItems(_, _), DumpMembers(_, _)
        DumpItems(items, i) ==
            IF i > Len(items) THEN <<>>
            ELSE JsonDump(items[i]) \o DumpItems(items, i + 1)
        DumpMembers(members, i) ==
            IF i > Len(members) THEN <<>>
            ELSE <<Quote(members[i].k)>> \o JsonDump(members[i].val)
                   \o DumpMembers(members, i + 1)
    IN  IF value.t = "array" THEN <<"[">> \o DumpItems(value.v, 1) \o <<"]">>
        ELSE IF value.t = "object" THEN <<"{">> \o DumpMembers(value.v, 1) \o <<"}">>
        ELSE IF value.t = "number" THEN <<ToString(value.v)>>
        ELSE <<Quote(value.v)>>

\* What the decoder hands back when the text is no JSON document.
JSONDecodeError == [ok |-> FALSE, val |-> Str("JSONDecodeError"), next |-> 0]

RECURSIVE ParseValue(_, _), ParseItems(_, _, _), ParseMembers(_, _, _)
\* The decoder on the value that starts at token i: the value and the place
\* after it, or JSONDecodeError.
ParseValue(text, i) ==
    IF i > Len(text) THEN JSONDecodeError
    ELSE IF text[i] = "[" THEN ParseItems(text, i + 1, <<>>)
    ELSE IF text[i] = "{" THEN ParseMembers(text, i + 1, <<>>)
    ELSE IF IsNumberToken(text[i])
         THEN [ok |-> TRUE, val |-> Num(ParseInt(text[i])), next |-> i + 1]
    ELSE IF IsStringToken(text[i])
         THEN [ok |-> TRUE, val |-> Str(Unquote(text[i])), next |-> i + 1]
    ELSE JSONDecodeError

\* The items of a list, up to its closing bracket.
ParseItems(text, i, acc) ==
    IF i > Len(text) THEN JSONDecodeError
    ELSE IF text[i] = "]" THEN [ok |-> TRUE, val |-> Arr(acc), next |-> i + 1]
    ELSE LET r == ParseValue(text, i)
         IN  IF r.ok THEN ParseItems(text, r.next, Append(acc, r.val))
             ELSE JSONDecodeError

\* The members of a dict, up to its closing bracket: a key is a string.
ParseMembers(text, i, acc) ==
    IF i > Len(text) THEN JSONDecodeError
    ELSE IF text[i] = "}" THEN [ok |-> TRUE, val |-> Obj(acc), next |-> i + 1]
    ELSE IF ~IsStringToken(text[i]) THEN JSONDecodeError
    ELSE LET r == ParseValue(text, i + 1)
         IN  IF r.ok
             THEN ParseMembers(text, r.next, Append(acc, Member(Unquote(text[i]), r.val)))
             ELSE JSONDecodeError

\* json.load(f): the value of the whole text, or JSONDecodeError (also when
\* something follows the value).
JsonLoad(text) ==
    LET r == ParseValue(text, 1)
    IN  IF r.ok /\ r.next = Len(text) + 1 THEN r ELSE JSONDecodeError

\* The list a curriculum is in Python, as a JSON value: a list of dicts with
\* the id and the children of a chapter, each child a dict with its id and,
\* where the curriculum carries it, its _class.
ChildToJson(child) ==
    IF "class" \in DOMAIN child
    THEN Obj(<<Member("id", Num(child.id)), Member("_class", Str(child.class))>>)
    ELSE Obj(<<Member("id", Num(child.id))>>)

ChapterToJson(ch) ==
    Obj(<<Member("id", Num(ch.id)),
          Member("children", Arr([j \in 1..Len(ch.children) |-> ChildToJson(ch.children[j])]))>>)

ToJson(cur) == Arr([c \in 1..Len(cur) |-> ChapterToJson(cur[c])])

\* value[k] for a dict: the value of the member with that key.
HasKey(value, k) == \E i \in 1..Len(value.v) : value.v[i].k = k
Get(value, k) == value.v[CHOOSE i \in 1..Len(value.v) : value.v[i].k = k].val

\* The value is what download_course can walk without an exception: a list of
\* dicts that have an id and a list of children, each child a dict with an id.
IsChild(value) ==
    /\ value.t = "object"
    /\ HasKey(value, "id")
    /\ Get(value, "id").t = "number"
    /\ HasKey(value, "_class") => Get(value, "_class").t = "string"

IsChapter(value) ==
    /\ value.t = "object"
    /\ HasKey(value, "id")
    /\ Get(value, "id").t = "number"
    /\ HasKey(value, "children")
    /\ Get(value, "children").t = "array"
    /\ \A j \in 1..Len(Get(value, "children").v) : IsChild(Get(value, "children").v[j])

IsCurriculum(value) ==
    /\ value.t = "array"
    /\ \A c \in 1..Len(value.v) : IsChapter(value.v[c])

ChildFromJson(value) ==
    IF HasKey(value, "_class")
    THEN [id |-> Get(value, "id").v, class |-> Get(value, "_class").v]
    ELSE [id |-> Get(value, "id").v]

ChapterFromJson(value) ==
    [id |-> Get(value, "id").v,
     children |-> [j \in 1..Len(Get(value, "children").v) |->
                      ChildFromJson(Get(value, "children").v[j])]]

\* The same list as the orchestrator reads it.
FromJson(value) == [c \in 1..Len(value.v) |-> ChapterFromJson(value.v[c])]

\* The documents a cache file is drawn from: the dump of a curriculum, such a
\* dump cut short, and two JSON documents that are no list of chapters.
CurriculaOf(nchapters, nchildren) ==
    UNION {
      {[c \in 1..n |->
          [id |-> c, children |-> [j \in 1..f[c] |-> [id |-> 10 * c + j]]]]
        : f \in [1..n -> 0..nchildren]}
      : n \in 0..nchapters}

CachedCurricula == CurriculaOf(MaxCachedChapters, MaxCachedChildren)

Truncations(text) == {SubSeq(text, 1, k) : k \in 0..(Len(text) - 1)}

OtherDocuments == {<<"{", "}">>, <<"[", "1", "]">>}

FileTexts ==
    {JsonDump(ToJson(cur)) : cur \in CachedCurricula}
    \cup UNION {Truncations(JsonDump(ToJson(cur))) : cur \in CachedCurricula}
    \cup OtherDocuments

\* course_curriculum before it is assigned.
Unbound == Str("unbound")

\* main() is not running.
MainIdle ==
    /\ runpc = "idle"
    /\ args = [load |-> "None", save |-> "None"]
    /\ files = [p \in Paths |-> UnknownFile]
    /\ course_curriculum = Unbound
    /\ runlog = {}
    /\ reqlog = <<>>
    /\ server = NoServer
    /\ url = 0
    /\ all_results = <<>>
    /\ total_count = 0

\* organize_curriculum is entered with a listing; download_course has not been
\* called.
InitOrg ==
    /\ results \in Listings
    /\ oi = 1
    /\ curriculum = <<>>
    /\ current_chapter = 0
    /\ total_lectures = 0
    /\ num_chapters = -1
    /\ warnings = 0
    /\ orgpc = "loop"
    /\ key = "None"
    /\ mainpc = "idle"
    /\ mindex = 1
    /\ chapter = 0
    /\ folder_path = <<>>
    /\ lindex = 0
    /\ lpos = 0
    /\ futures = <<>>
    /\ jpos = 0
    /\ exc = "None"
    /\ queue = <<>>
    /\ future = <<>>
    /\ work = <<>>
    /\ frame = <<>>
    /\ dirs = {}
    /\ MainIdle

\* One iteration of "for item in results".
OrganizeItem ==
    /\ orgpc = "loop"
    /\ oi <= Len(results)
    /\ LET item == results[oi] IN
        \/ /\ item.class = "chapter"
           /\ curriculum' = Append(curriculum, NewChapter(item))
           /\ current_chapter' = Len(curriculum) + 1
           /\ UNCHANGED <<total_lectures, warnings>>
        \/ /\ item.class \in {"lecture", "practice"}
           /\ current_chapter # 0
           /\ curriculum' = AppendChild(curriculum, current_chapter, item)
           /\ total_lectures' = IF CountsAsLecture(item) THEN total_lectures + 1
                                                         ELSE total_lectures
           /\ UNCHANGED <<current_chapter, warnings>>
        \/ /\ item.class \in {"lecture", "practice"}
           /\ current_chapter = 0
           /\ warnings' = warnings + 1
           /\ UNCHANGED <<curriculum, current_chapter, total_lectures>>
        \/ /\ item.class \notin {"chapter", "lecture", "practice"}
           /\ UNCHANGED <<curriculum, current_chapter, total_lectures, warnings>>
    /\ oi' = oi + 1
    /\ UNCHANGED <<results, num_chapters, orgpc>>

\* The loop is over: the two counts are logged and curriculum is returned.
OrganizeReturn ==
    /\ orgpc = "loop"
    /\ oi > Len(results)
    /\ num_chapters' = Len(curriculum)
    /\ orgpc' = "returned"
    /\ UNCHANGED <<results, oi, current_chapter, total_lectures, warnings, curriculum>>

(***************************************************************************)
(* The inputs of download_course                                           *)
(***************************************************************************)
\* The _class tags process_lecture tells apart.
ChildClasses == {"lecture", "practice"}

\* A curriculum: chapters in order, each with its children in order.  A child
\* is known here by its id, unique in the course; its other fields (_class,
\* is_free, supplementary_assets) are inputs of the run that only its own call
\* of process_lecture reads, each once: each is drawn where that call reads it.
Curricula == CurriculaOf(MaxChapters, MaxChildren)

\* The ids of the children of a curriculum.
ChildIds(cur) ==
    UNION {{cur[c].children[j].id : j \in 1..Len(cur[c].children)} : c \in 1..Len(cur)}

\* The children of the curriculum download_course runs on: one future, one
\* work item and one frame is kept for each.
LectureIds == DOMAIN future

\* The child with the given id.
ChildOf(t) ==
    CHOOSE ch \in UNION {{curriculum[c].children[j] : j \in 1..Len(curriculum[c].children)}
                            : c \in 1..Len(curriculum)} : ch.id = t

\* lecture['_class']: what the curriculum carries, and any of ChildClasses
\* where it carries none (the field is then drawn where it is read).
ClassesOf(t) ==
    IF "class" \in DOMAIN ChildOf(t) THEN {ChildOf(t).class} ELSE ChildClasses

\* The chapter a child belongs to: the ids of Curricula are 10 * c + j.
ChapterOf(t) == t \div 10

\* The values --threads can take.  main() parses args.threads and nothing
\* reads it: it is no part of the state download_course runs on.
ThreadCounts == 1..MaxThreads

\* The global key: None, or a string with a ":" in it.
Keys == {"None", "kid:kv"}

HLS == "application/x-mpegURL"
DASH == "application/dash+xml"
MP4 == "video/mp4"
MediaTypes == {HLS, DASH, MP4}

\* asset.media_sources: a list of {type, src}; every entry has its own src, here
\* its position in the list.  0 stands for None.
SourceLists ==
    {[i \in 1..Len(ts) |-> [type |-> ts[i], src |-> i]] : ts \in SeqsUpTo(MediaTypes, MaxSources)}

\* The lengths of asset.captions and of supplementary_assets: the code only
\* tests them against 0.
ListLengths == {0, 1}

(***************************************************************************)
(* The ThreadPoolExecutor of download_course                               *)
(***************************************************************************)
\* A mutation of max_workers: the pool has a worker for every child a chapter
\* can have.
max_workers_per_child == MaxChildren

\* ThreadPoolExecutor(max_workers=1)
max_workers == 1

NoFuture == [state |-> "none", exception |-> "None"]
NoWork == [folder_path |-> <<>>, lindex |-> 0, key |-> "None"]
\* One call of an external collaborator (or of os.makedirs), with the target
\* directory, the source URL, the numeric prefix of the file name and the key
\* it was given (0, 0 and "None" where the call takes none).
Call(fn, dir, src, prefix, k) ==
    [fn |-> fn, dir |-> dir, url |-> src, prefix |-> prefix, key |-> k]

NoCall == Call("none", <<>>, 0, 0, "None")

\* The locals of a call of process_lecture: where it is, the fields of the
\* lecture and of lect_info it has read, the collaborator call of the
\* statement it executed last (NoCall if that made none), what it has logged,
\* and the len(chapter['children']) it read for the progress message.
NoFrame == [pc |-> "none", class |-> "none", is_free |-> FALSE, media_sources |-> <<>>,
            call |-> NoCall, log |-> {}, total |-> 0]

Pending == {t \in LectureIds : future[t].state = "PENDING"}
Running == {t \in LectureIds : future[t].state = "RUNNING"}
Finished == {t \in LectureIds : future[t].state = "FINISHED"}

\* A mutation of ResultReady: future.result() returns without waiting.
ResultNoWait(t) == TRUE

\* A mutation of ResultReady: future.result() returns once the call has started.
ResultWhenStarted(t) == future[t].state \in {"RUNNING", "FINISHED"}

\* future.result() blocks until the call has finished.
ResultReady(t) == future[t].state = "FINISHED"

\* A mutation of ChapterDir: the prefix counts from 0.
ChapterDirFromZero(m) == <<m - 1>>

\* os.path.join(COURSE_DIR, f"{mindex}. {sanitize_filename(chapter['title'])}")
ChapterDir(m) == <<m>>

\* os.path.join(folder_path, str(lecture['id']))
LectureDir(fp, id) == Append(fp, id)

\* os.makedirs(path): the path and every missing parent.
MakeDirs(path) == dirs \cup {SubSeq(path, 1, k) : k \in 1..Len(path)}

\* next((item['src'] for item in media_sources if item['type'] == type), None)
FirstSrc(sources, type) ==
    LET I == {i \in 1..Len(sources) : sources[i].type = type}
    IN  IF I = {} THEN 0 ELSE sources[Min(I)].src

ErrM3U8 == "error: M3U8 URL missing"
ErrMPD == "error: MPD URL missing"
ErrMP4 == "error: served as mp4, not supported"
WarnDRM == "warning: DRM-protected, no key"
WarnExists == "warning: directory already exists"
InfoLecture == "info: Downloading Lecture"

\* A mutation of SelectSource: a free lecture without HLS falls back to DASH.
SelectSourceFreeFallsBack(is_free, sources, k) ==
    LET m3u8_url == FirstSrc(sources, HLS)
        mpd_url == FirstSrc(sources, DASH)
        mp4_url == FirstSrc(sources, MP4)
    IN  IF is_free /\ m3u8_url # 0
        THEN [fn |-> "download_and_merge_m3u8", url |-> m3u8_url, log |-> {}]
        ELSE IF mpd_url = 0
             THEN IF is_free THEN [fn |-> "none", url |-> 0, log |-> {ErrM3U8}]
                  ELSE IF mp4_url = 0 THEN [fn |-> "none", url |-> 0, log |-> {ErrMPD}]
                                      ELSE [fn |-> "none", url |-> 0, log |-> {ErrMP4}]
             ELSE [fn |-> "download_and_merge_mpd", url |-> mpd_url,
                   log |-> IF k = "None" THEN {WarnDRM} ELSE {}]

\* A mutation of SelectSource: a paid lecture without a key is not downloaded.
SelectSourceKeyRequired(is_free, sources, k) ==
    LET m3u8_url == FirstSrc(sources, HLS)
        mpd_url == FirstSrc(sources, DASH)
        mp4_url == FirstSrc(sources, MP4)
    IN  IF is_free
        THEN IF m3u8_url = 0
             THEN [fn |-> "none", url |-> 0, log |-> {ErrM3U8}]
             ELSE [fn |-> "download_and_merge_m3u8", url |-> m3u8_url, log |-> {}]
        ELSE IF mpd_url = 0
             THEN IF mp4_url = 0 THEN [fn |-> "none", url |-> 0, log |-> {ErrMPD}]
                                 ELSE [fn |-> "none", url |-> 0, log |-> {ErrMP4}]
             ELSE IF k = "None"
                  THEN [fn |-> "none", url |-> 0, log |-> {WarnDRM}]
                  ELSE [fn |-> "download_and_merge_mpd", url |-> mpd_url, log |-> {}]

\* The media source selection of process_lecture: the collaborator to call
\* ("none" for no call), the URL to call it on, and what is logged.
SelectSource(is_free, sources, k) ==
    LET m3u8_url == FirstSrc(sources, HLS)
        mpd_url == FirstSrc(sources, DASH)
        mp4_url == FirstSrc(sources, MP4)
    IN  IF is_free
        THEN IF m3u8_url = 0
             THEN [fn |-> "none", url |-> 0, log |-> {ErrM3U8}]
             ELSE [fn |-> "download_and_merge_m3u8", url |-> m3u8_url, log |-> {}]
        ELSE IF mpd_url = 0
             THEN IF mp4_url = 0 THEN [fn |-> "none", url |-> 0, log |-> {ErrMPD}]
                                 ELSE [fn |-> "none", url |-> 0, log |-> {ErrMP4}]
             ELSE [fn |-> "download_and_merge_mpd", url |-> mpd_url,
                   log |-> IF k = "None" THEN {WarnDRM} ELSE {}]

(***************************************************************************)
(* Udemy.download_course: the main thread                                  *)
(***************************************************************************)
\* The exception a user interrupt raises in the main thread.
KeyboardInterrupt == "KeyboardInterrupt"

Init ==
    /\ results = <<>>
    /\ oi = 1
    /\ current_chapter = 0
    /\ total_lectures = 0
    /\ num_chapters = -1
    /\ warnings = 0
    /\ orgpc = "idle"
    /\ curriculum \in Curricula
    /\ key \in Keys
    /\ mainpc = "for_chapter"
    /\ mindex = 1
    /\ chapter = 0
    /\ folder_path = <<>>
    /\ lindex = 0
    /\ lpos = 0
    /\ futures = <<>>
    /\ jpos = 0
    /\ exc = "None"
    /\ queue = <<>>
    /\ future = [t \in ChildIds(curriculum) |-> NoFuture]
    /\ work = [t \in ChildIds(curriculum) |-> NoWork]
    /\ frame = [t \in ChildIds(curriculum) |-> NoFrame]
    /\ dirs = {}
    /\ MainIdle

\* for chapter in curriculum: the next chapter is bound, folder_path is
\* computed, lindex and futures are reset.
ForChapter ==
    /\ mainpc = "for_chapter"
    /\ chapter < Len(curriculum)
    /\ chapter' = chapter + 1
    /\ folder_path' = ChapterDir(mindex)
    /\ lindex' = 1
    /\ futures' = <<>>
    /\ lpos' = 1
    /\ mainpc' = "submit"
    /\ UNCHANGED <<mindex, jpos, exc, poolVars, cfgVars, curriculum, orgVars,
                   runVars, fetchVars>>

\* for lecture in chapter['children']: executor.submit(process_lecture, ...).
Submit ==
    /\ mainpc = "submit"
    /\ lpos <= Len(curriculum[chapter].children)
    /\ LET t == curriculum[chapter].children[lpos].id IN
        /\ work' = [work EXCEPT ![t] =
                       [folder_path |-> folder_path, lindex |-> lindex, key |-> key]]
        /\ future' = [future EXCEPT ![t] = [state |-> "PENDING", exception |-> "None"]]
        /\ queue' = Append(queue, t)
        /\ futures' = Append(futures, t)
    /\ lindex' = lindex + 1
    /\ lpos' = lpos + 1
    /\ UNCHANGED <<mainpc, mindex, chapter, folder_path, jpos, exc, frame, dirs,
                   cfgVars, curriculum, orgVars,
                   runVars, fetchVars>>

\* The submit loop is over; the loop over futures begins.
SubmitDone ==
    /\ mainpc = "submit"
    /\ lpos > Len(curriculum[chapter].children)
    /\ jpos' = 1
    /\ mainpc' = "result"
    /\ UNCHANGED <<mindex, chapter, folder_path, lindex, lpos, futures, exc, poolVars,
                   cfgVars, curriculum, orgVars,
                   runVars, fetchVars>>

\* for future in futures: future.result().  It returns when the call has
\* finished, and raises, in the main thread, the exception the call ended with.
Result ==
    /\ mainpc = "result"
    /\ jpos <= Len(futures)
    /\ ResultReady(futures[jpos])
    /\ \/ /\ future[futures[jpos]].exception = "None"
          /\ jpos' = jpos + 1
          /\ UNCHANGED <<mainpc, exc>>
       \/ /\ future[futures[jpos]].exception # "None"
          /\ exc' = future[futures[jpos]].exception
          /\ mainpc' = "shutdown"
          /\ UNCHANGED jpos
    /\ UNCHANGED <<mindex, chapter, folder_path, lindex, lpos, futures, poolVars,
                   cfgVars, curriculum, orgVars,
                   runVars, fetchVars>>

\* The loop over futures is over: mindex += 1 and on to the next chapter.
ChapterDone ==
    /\ mainpc = "result"
    /\ jpos > Len(futures)
    /\ mindex' = mindex + 1
    /\ mainpc' = "for_chapter"
    /\ UNCHANGED <<chapter, folder_path, lindex, lpos, futures, jpos, exc, poolVars,
                   cfgVars, curriculum, orgVars,
                   runVars, fetchVars>>

\* The loop over the chapters is over: the with block is left.
LoopDone ==
    /\ mainpc = "for_chapter"
    /\ chapter >= Len(curriculum)
    /\ mainpc' = "shutdown"
    /\ UNCHANGED <<mindex, chapter, folder_path, lindex, lpos, futures, jpos, exc,
                   poolVars, cfgVars, curriculum, orgVars,
                   runVars, fetchVars>>

\* The with block's exit, executor.shutdown(wait=True): the calls still queued
\* are run, the workers are joined, and then download_course returns or the
\* exception goes on to main(), which catches KeyboardInterrupt only (it logs
\* a warning and calls sys.exit(0)).
Shutdown ==
    /\ mainpc = "shutdown"
    /\ queue = <<>>
    /\ Running = {}
    /\ mainpc' = IF exc = "None" THEN "returned"
                 ELSE IF exc = KeyboardInterrupt THEN "interrupted"
                 ELSE "raised"
    /\ UNCHANGED <<mindex, chapter, folder_path, lindex, lpos, futures, jpos, exc,
                   poolVars, cfgVars, curriculum, orgVars,
                   runVars, fetchVars>>

\* The user interrupts the process while download_course is running: the
\* KeyboardInterrupt is raised in the main thread, wherever it is in the with
\* block, and takes it to the with block's exit.  Raised during the exit
\* itself it replaces the exception under way; the workers are then joined
\* when the interpreter shuts down, after the calls still queued have run.
Interrupt ==
    /\ mainpc \in {"for_chapter", "submit", "result", "shutdown"}
    /\ exc # KeyboardInterrupt
    /\ exc' = KeyboardInterrupt
    /\ mainpc' = "shutdown"
    /\ UNCHANGED <<mindex, chapter, folder_path, lindex, lpos, futures, jpos,
                   poolVars, cfgVars, curriculum, orgVars,
                   runVars, fetchVars>>

(***************************************************************************)
(* The worker threads: process_lecture                                     *)
(***************************************************************************)
\* The exceptions a call of process_lecture can end with: sys.exit(1) in
\* create_directory, sys.exit(1) in fetch_lecture_info, and whatever one of
\* the collaborators raises.
ExitMkdir == "SystemExit(1) from create_directory"
ExitFetch == "SystemExit(1) from fetch_lecture_info"
ErrCollaborator == "Exception from a collaborator"

\* The call of t ends with an exception: the worker stores it in the future
\* (it catches BaseException) and takes the next work item.
Raise(t, e) ==
    /\ future' = [future EXCEPT ![t] = [state |-> "FINISHED", exception |-> e]]
    /\ frame' = [frame EXCEPT ![t] = NoFrame]
    /\ work' = [work EXCEPT ![t] = NoWork]

\* The call of t returns: the worker sets the future's result and takes the
\* next work item.
Return(t) ==
    /\ future' = [future EXCEPT ![t] = [state |-> "FINISHED", exception |-> "None"]]
    /\ frame' = [frame EXCEPT ![t] = NoFrame]
    /\ work' = [work EXCEPT ![t] = NoWork]

\* The call of t goes on at the given place with the given locals.
Goto(t, f) ==
    /\ frame' = [frame EXCEPT ![t] = f]
    /\ UNCHANGED <<future, work>>

\* A worker takes the oldest work item; there are at most max_workers workers,
\* each running one call.
TaskStart(t) ==
    /\ queue # <<>>
    /\ t = Head(queue)
    /\ Cardinality(Running) < max_workers
    /\ queue' = Tail(queue)
    /\ future' = [future EXCEPT ![t].state = "RUNNING"]
    /\ frame' = [frame EXCEPT ![t] = [NoFrame EXCEPT !.pc = "mkdir"]]
    /\ UNCHANGED <<work, dirs, mainVars, cfgVars, curriculum, orgVars,
                   runVars, fetchVars>>

\* temp_folder_path and self.create_directory(temp_folder_path): the directory
\* is made, or it exists (a warning), or os.makedirs fails otherwise and
\* create_directory calls sys.exit(1).
TaskMkdir(t) ==
    /\ frame[t].pc = "mkdir"
    /\ LET temp_folder_path == LectureDir(work[t].folder_path, t) IN
        \/ /\ Goto(t, [frame[t] EXCEPT
                  !.pc = "fetch",
                  !.call = Call("makedirs", temp_folder_path, 0, 0, "None"),
                  !.log = IF temp_folder_path \in dirs THEN @ \cup {WarnExists} ELSE @])
           /\ dirs' = MakeDirs(temp_folder_path)
        \/ /\ Raise(t, ExitMkdir)
           /\ UNCHANGED dirs
    /\ UNCHANGED <<queue, mainVars, cfgVars, curriculum, orgVars,
                   runVars, fetchVars>>

\* if lecture['_class'] == 'lecture': fetch_lecture_info, which calls
\* sys.exit(1) when the request or its decoding fails, and the progress
\* message, which reads the loop variable chapter of download_course.
\* A practice item: pass; any other _class: nothing.
TaskFetch(t) ==
    /\ frame[t].pc = "fetch"
    /\ \E class \in ClassesOf(t) :
        \/ /\ class = "lecture"
           /\ Goto(t, [frame[t] EXCEPT
                  !.pc = "captions",
                  !.class = class,
                  !.call = NoCall,
                  !.total = Len(curriculum[chapter].children),
                  !.log = @ \cup {InfoLecture}])
        \/ /\ class = "lecture"
           /\ Raise(t, ExitFetch)
        \/ /\ class # "lecture"
           /\ Goto(t, [frame[t] EXCEPT !.pc = "ret", !.class = class, !.call = NoCall])
    /\ UNCHANGED <<queue, dirs, mainVars, cfgVars, curriculum, orgVars,
                   runVars, fetchVars>>

\* if len(lect_info["asset"]["captions"]) > 0: download_captions(..., folder_path,
\* f"{lindex}. ...", captions, logger), which returns or raises.
TaskCaptions(t) ==
    /\ frame[t].pc = "captions"
    /\ \E captions \in ListLengths :
        \/ /\ captions = 0
           /\ Goto(t, [frame[t] EXCEPT !.pc = "assets", !.call = NoCall])
        \/ /\ captions > 0
           /\ Goto(t, [frame[t] EXCEPT
                  !.pc = "assets",
                  !.call = Call("download_captions", work[t].folder_path, 0,
                                work[t].lindex, "None")])
        \/ /\ captions > 0
           /\ Raise(t, ErrCollaborator)
    /\ UNCHANGED <<queue, dirs, mainVars, cfgVars, curriculum, orgVars,
                   runVars, fetchVars>>

\* if len(lecture["supplementary_assets"]) > 0: process_supplementary_assets(self,
\* ..., folder_path, course_id, lect_info["id"], logger), which returns or raises.
TaskAssets(t) ==
    /\ frame[t].pc = "assets"
    /\ \E supplementary_assets \in ListLengths :
        \/ /\ supplementary_assets = 0
           /\ Goto(t, [frame[t] EXCEPT !.pc = "select", !.call = NoCall])
        \/ /\ supplementary_assets > 0
           /\ Goto(t, [frame[t] EXCEPT
                  !.pc = "select",
                  !.call = Call("process_supplementary_assets",
                                work[t].folder_path, 0, 0, "None")])
        \/ /\ supplementary_assets > 0
           /\ Raise(t, ErrCollaborator)
    /\ UNCHANGED <<queue, dirs, mainVars, cfgVars, curriculum, orgVars,
                   runVars, fetchVars>>

\* if lecture['is_free']: ... else: ...: the source is selected among
\* lect_info['asset']['media_sources'], what the selection logs is logged, and
\* the stream collaborator, if one is selected, is called with temp_folder_path
\* and f"{lindex}. ..." (and key, for DASH).
TaskSelect(t) ==
    /\ frame[t].pc = "select"
    /\ \E is_free \in BOOLEAN : \E media_sources \in SourceLists :
        LET s == SelectSource(is_free, media_sources, work[t].key)
            temp_folder_path == LectureDir(work[t].folder_path, t)
        IN  Goto(t, [frame[t] EXCEPT
                !.pc = IF s.fn = "none" THEN "ret" ELSE "stream",
                !.is_free = is_free,
                !.media_sources = media_sources,
                !.log = @ \cup s.log,
                !.call = IF s.fn = "none" THEN NoCall
                         ELSE Call(s.fn, temp_folder_path, s.url, work[t].lindex,
                                   IF s.fn = "download_and_merge_mpd"
                                   THEN work[t].key ELSE "None")])
    /\ UNCHANGED <<queue, dirs, mainVars, cfgVars, curriculum, orgVars,
                   runVars, fetchVars>>

\* The stream collaborator returns, and process_lecture with it (the call is
\* its last statement), or it raises.
TaskStream(t) ==
    /\ frame[t].pc = "stream"
    /\ \/ Return(t)
       \/ Raise(t, ErrCollaborator)
    /\ UNCHANGED <<queue, dirs, mainVars, cfgVars, curriculum, orgVars,
                   runVars, fetchVars>>

\* process_lecture returns after a statement that called nothing (a practice
\* item, or a lecture without a usable source).
TaskReturn(t) ==
    /\ frame[t].pc = "ret"
    /\ Return(t)
    /\ UNCHANGED <<queue, dirs, mainVars, cfgVars, curriculum, orgVars,
                   runVars, fetchVars>>

Next ==
    \/ ForChapter
    \/ Submit
    \/ SubmitDone
    \/ Result
    \/ ChapterDone
    \/ LoopDone
    \/ Shutdown
    \/ \E t \in LectureIds : TaskStart(t)
    \/ \E t \in LectureIds : TaskMkdir(t)
    \/ \E t \in LectureIds : TaskFetch(t)
    \/ \E t \in LectureIds : TaskCaptions(t)
    \/ \E t \in LectureIds : TaskAssets(t)
    \/ \E t \in LectureIds : TaskSelect(t)
    \/ \E t \in LectureIds : TaskStream(t)
    \/ \E t \in LectureIds : TaskReturn(t)

Spec == Init /\ [][Next]_vars

(***************************************************************************)
(* download_course with a user interrupt                                   *)
(***************************************************************************)
NextInt ==
    \/ Next
    \/ Interrupt

SpecInt == Init /\ [][NextInt]_vars

(***************************************************************************)
(* organize_curriculum as a run of its own                                 *)
(***************************************************************************)
NextOrg ==
    \/ OrganizeItem /\ UNCHANGED <<dlVars, runVars, fetchVars>>
    \/ OrganizeReturn /\ UNCHANGED <<dlVars, runVars, fetchVars>>

SpecOrg == InitOrg /\ [][NextOrg]_vars

(***************************************************************************)
(* main(), from the resolution of the course id on                         *)
(***************************************************************************)
\* What walking a value that is no list of chapters raises in download_course.
ErrShape == "TypeError or KeyError from walking course_curriculum"

\* The for loop of download_course runs on the value without an exception: a
\* list of chapters, or an empty dict (nothing to iterate over).
Walkable(value) == IsCurriculum(value) \/ (value.t = "object" /\ value.v = <<>>)

\* What the for loop of download_course iterates over.
Chapters(value) == IF value.t = "array" THEN FromJson(value) ELSE <<>>

\* A mutation of LoadedCurriculum: a value that is no list of chapters is
\* replaced by an empty list.
LoadedRevalidated(text) ==
    IF IsCurriculum(JsonLoad(text).val) THEN JsonLoad(text).val ELSE Arr(<<>>)

\* course_curriculum = json.load(open(path, "r"))
LoadedCurriculum(text) == JsonLoad(text).val

\* A mutation of SavedText: a list is written last item first.
SavedTextReversed(value) ==
    JsonDump(IF value.t = "array"
             THEN Arr([c \in 1..Len(value.v) |-> value.v[Len(value.v) + 1 - c]])
             ELSE value)

\* json.dump(course_curriculum, f, indent=4)
SavedText(value) == JsonDump(value)

\* main() has parsed its arguments, checked the prerequisites and loaded the
\* cookies; nothing has been requested, read or written.
InitMain ==
    /\ results = <<>>
    /\ oi = 1
    /\ curriculum = <<>>
    /\ current_chapter = 0
    /\ total_lectures = 0
    /\ num_chapters = -1
    /\ warnings = 0
    /\ orgpc = "idle"
    /\ key \in Keys
    /\ mainpc = "idle"
    /\ mindex = 1
    /\ chapter = 0
    /\ folder_path = <<>>
    /\ lindex = 0
    /\ lpos = 0
    /\ futures = <<>>
    /\ jpos = 0
    /\ exc = "None"
    /\ queue = <<>>
    /\ future = <<>>
    /\ work = <<>>
    /\ frame = <<>>
    /\ dirs = {}
    /\ runpc = "course_id"
    /\ args \in [load : ArgValues, save : ArgValues]
    /\ files = [p \in Paths |-> UnknownFile]
    /\ course_curriculum = Unbound
    /\ runlog = {}
    /\ reqlog = <<>>
    /\ server = NoServer
    /\ url = 0
    /\ all_results = <<>>
    /\ total_count = 0

\* course_id = args.id, or extract_course_id(course_url): the landing page is
\* requested and the id is searched in it (sys.exit(1) when it is not found).
\* When the request fails, request() has returned None and response.content
\* raises an AttributeError nothing catches.
MainCourseId ==
    /\ runpc = "course_id"
    /\ \/ /\ runpc' = "course"
          /\ UNCHANGED reqlog
       \/ /\ reqlog' = Append(reqlog, Requested("landing", 0, "ok", "None", 0))
          /\ runpc' = "course"
       \/ /\ reqlog' = Append(reqlog, Requested("landing", 0, "ok", "None", 0))
          /\ runpc' = "exit1"
       \/ /\ reqlog' = Append(reqlog, Requested("landing", 0, "failed", "None", 0))
          /\ runpc' = "crash"
    /\ UNCHANGED <<args, files, course_curriculum, runlog, server, url, all_results,
                   total_count, orgVars, curriculum, dlVars>>

\* course_info = udemy.fetch_course(course_id) and the course directory: the
\* course is there and its directory is made or exists; or fetch_course or
\* create_directory calls sys.exit(1) (the course is not found, the body does
\* not decode, the directory cannot be made); or the request fails, request()
\* returns None, and the AttributeError is caught in fetch_course, which calls
\* sys.exit(1).
MainCourse ==
    /\ runpc = "course"
    /\ \/ /\ reqlog' = Append(reqlog, Requested("course", 0, "ok", "None", 0))
          /\ runpc' = "curriculum"
       \/ /\ reqlog' = Append(reqlog, Requested("course", 0, "ok", "None", 0))
          /\ runpc' = "exit1"
       \/ /\ reqlog' = Append(reqlog, Requested("course", 0, "failed", "None", 0))
          /\ runpc' = "exit1"
    /\ UNCHANGED <<args, files, course_curriculum, runlog, server, url, all_results,
                   total_count, orgVars, curriculum, dlVars>>

\* if args.load: the file of the option is looked up (os.path.isfile) and
\* decoded (json.load); only json.JSONDecodeError is caught.  With the bare
\* option and no default file the second test is os.path.isfile(True), which
\* is about file descriptor 1: when the standard output is no regular file
\* the not-located error is logged, and when it is one, reading it fails with
\* an exception nothing catches.
MainLoad ==
    /\ runpc = "curriculum"
    /\ args.load # "None"
    /\ LET p == PathOf(args.load) IN
        \/ \E text \in FileTexts :
            /\ JsonLoad(text).ok
            /\ files' = [files EXCEPT ![p] = FileWith(text)]
            /\ course_curriculum' = LoadedCurriculum(text)
            /\ runlog' = runlog \cup {InfoLoaded}
            /\ reqlog' = <<>>
            /\ runpc' = "save"
        \/ \E text \in FileTexts :
            /\ ~JsonLoad(text).ok
            /\ files' = [files EXCEPT ![p] = FileWith(text)]
            /\ runlog' = runlog \cup {ErrMalformed}
            /\ runpc' = "exit1"
            /\ UNCHANGED <<course_curriculum, reqlog>>
        \/ /\ args.load # "True"
           /\ files' = [files EXCEPT ![p] = AbsentFile]
           /\ runlog' = runlog \cup {ErrNotLocated}
           /\ runpc' = "exit1"
           /\ UNCHANGED <<course_curriculum, reqlog>>
        \/ /\ args.load = "True"
           /\ files' = [files EXCEPT ![p] = AbsentFile]
           /\ \E stdout_is_file \in BOOLEAN :
                IF stdout_is_file
                THEN runpc' = "crash" /\ UNCHANGED runlog
                ELSE runpc' = "exit1" /\ runlog' = runlog \cup {ErrNotLocated}
           /\ UNCHANGED <<course_curriculum, reqlog>>
    /\ UNCHANGED <<args, server, url, all_results, total_count, orgVars, curriculum,
                   dlVars>>

\* else: udemy.fetch_course_curriculum(course_id) is entered: all_results = [],
\* url = CURRICULUM_URL, total_count = 0.  The platform holds some listing.
MainFetch ==
    /\ runpc = "curriculum"
    /\ args.load = "None"
    /\ server' \in Servers
    /\ url' = 1
    /\ all_results' = <<>>
    /\ total_count' = 0
    /\ runpc' = "fetch"
    /\ UNCHANGED <<args, files, course_curriculum, runlog, reqlog, orgVars, curriculum,
                   dlVars>>

\* One iteration of "while url": the page is requested and decoded.  The
\* not-found marker: sys.exit(1).  Otherwise the count is read while
\* total_count is 0, the results are appended and url becomes the "next" of
\* the page.  When the request fails, request() returns None, .json() raises
\* an AttributeError, and main() catches it and calls sys.exit(1).
FetchPage ==
    /\ runpc = "fetch"
    /\ url # 0
    /\ \/ \E response \in PageBodies(server, url) :
            /\ reqlog' = Append(reqlog, Requested("curriculum", url, "ok", response.detail,
                                               response.count))
            /\ IF IsNotFound(response)
               THEN /\ runpc' = "exit1"
                    /\ UNCHANGED <<url, all_results, total_count>>
               ELSE /\ total_count' = IF total_count = 0 THEN response.count
                                                         ELSE total_count
                    /\ all_results' = ExtendResults(all_results, response.results)
                    /\ url' = response.next
                    /\ UNCHANGED runpc
       \/ /\ reqlog' = Append(reqlog, Requested("curriculum", url, "failed", "None", 0))
          /\ runpc' = "exit1"
          /\ UNCHANGED <<url, all_results, total_count>>
    /\ UNCHANGED <<args, files, course_curriculum, runlog, server, orgVars, curriculum,
                   dlVars>>

\* The loop is over: return self.organize_curriculum(all_results).
FetchReturn ==
    /\ runpc = "fetch"
    /\ url = 0
    /\ results' = all_results
    /\ oi' = 1
    /\ curriculum' = <<>>
    /\ current_chapter' = 0
    /\ total_lectures' = 0
    /\ orgpc' = "loop"
    /\ runpc' = "organize"
    /\ UNCHANGED <<num_chapters, warnings, dlVars, args, files, course_curriculum, runlog,
                   fetchVars>>

\* organize_curriculum and fetch_course_curriculum have returned:
\* course_curriculum is bound to the list built, and the locals of the two
\* calls are gone (reqlog and server go with them).
MainFetched ==
    /\ runpc = "organize"
    /\ orgpc = "returned"
    /\ course_curriculum' = ToJson(curriculum)
    /\ results' = <<>>
    /\ oi' = 1
    /\ curriculum' = <<>>
    /\ current_chapter' = 0
    /\ total_lectures' = 0
    /\ num_chapters' = -1
    /\ warnings' = 0
    /\ orgpc' = "idle"
    /\ reqlog' = <<>>
    /\ server' = NoServer
    /\ url' = 0
    /\ all_results' = <<>>
    /\ total_count' = 0
    /\ runpc' = "save"
    /\ UNCHANGED <<dlVars, args, files, runlog>>

\* if args.save: a file that is there is overwritten with a warning, and
\* course_curriculum is dumped into the file of the option.
MainSave ==
    /\ runpc = "save"
    /\ \/ /\ args.save = "None"
          /\ UNCHANGED <<files, runlog>>
       \/ /\ args.save # "None"
          /\ LET p == PathOf(args.save) IN
               \E existed \in (IF files[p].exists = "unknown" THEN BOOLEAN
                                ELSE {files[p].exists = "yes"}) :
                 /\ files' = [files EXCEPT ![p] = FileWith(SavedText(course_curriculum))]
                 /\ runlog' = runlog \cup {InfoSaved}
                                \cup (IF existed THEN {WarnOverwrite} ELSE {})
    /\ runpc' = "download"
    /\ UNCHANGED <<args, course_curriculum, fetchVars, orgVars, curriculum, dlVars>>

\* udemy.download_course(course_id, course_curriculum) is entered: mindex = 1
\* and the with block.  A value the for loop cannot walk raises in it before
\* anything is submitted.
MainDownload ==
    /\ runpc = "download"
    /\ mainpc = "idle"
    /\ \/ /\ Walkable(course_curriculum)
          /\ curriculum' = Chapters(course_curriculum)
          /\ future' = [t \in ChildIds(Chapters(course_curriculum)) |-> NoFuture]
          /\ work' = [t \in ChildIds(Chapters(course_curriculum)) |-> NoWork]
          /\ frame' = [t \in ChildIds(Chapters(course_curriculum)) |-> NoFrame]
          /\ mainpc' = "for_chapter"
          /\ UNCHANGED exc
       \/ /\ ~Walkable(course_curriculum)
          /\ exc' = ErrShape
          /\ mainpc' = "shutdown"
          /\ UNCHANGED <<curriculum, future, work, frame>>
    /\ UNCHANGED <<mindex, chapter, folder_path, lindex, lpos, futures, jpos, queue, dirs,
                   cfgVars, orgVars, runVars, fetchVars>>

\* download_course is over: it returned and main() logs "Download Complete",
\* or it raised: a SystemExit ends the process with status 1, any other
\* exception with a traceback.
MainEnd ==
    /\ runpc = "download"
    /\ mainpc \in {"returned", "raised"}
    /\ runpc' = IF mainpc = "returned" THEN "done"
                ELSE IF exc \in {ExitMkdir, ExitFetch} THEN "exit1"
                ELSE "crash"
    /\ UNCHANGED <<args, files, course_curriculum, runlog, fetchVars, orgVars, curriculum,
                   dlVars>>

NextMain ==
    \/ MainCourseId
    \/ MainCourse
    \/ MainLoad
    \/ MainFetch
    \/ FetchPage
    \/ FetchReturn
    \/ OrganizeItem /\ UNCHANGED <<dlVars, runVars, fetchVars>>
    \/ OrganizeReturn /\ UNCHANGED <<dlVars, runVars, fetchVars>>
    \/ MainFetched
    \/ MainSave
    \/ MainDownload
    \/ MainEnd
    \/ Next

SpecMain == InitMain /\ [][NextMain]_vars

(***************************************************************************)
(* Properties of download_course                                           *)
(***************************************************************************)
Terminated == mainpc \in {"returned", "raised"}

\* The failures of one lecture task that C1 names: a failed lecture-detail
\* fetch and an exception of the caption, asset or stream collaborator (a
\* missing media source raises nothing: it is logged and the call returns).
LectureFailures == {ExitFetch, ErrCollaborator}

\* C1: a failure of one lecture task does not cancel its siblings and does not
\* abort the run: when download_course has ended and no call ended otherwise
\* than normally or with one of the failures of LectureFailures, every lecture
\* task of the curriculum, of the same and of every later chapter, has been
\* executed.
C1_FailureContained ==
    (/\ Terminated
     /\ \A t \in LectureIds : future[t].exception \in LectureFailures \cup {"None"})
    => \A t \in LectureIds : future[t].state = "FINISHED"

\* C2: whatever pool size N the run is configured with (--threads), at most N
\* lecture tasks are executing at the same time.
C2_AtMostThreadsRunning == \A N \in ThreadCounts : Cardinality(Running) <= N

\* A lecture task is executing while a sibling waits in the pool's queue.
C2_Witness ==
    \E t \in Running : \E u \in Pending :
        /\ ChapterOf(t) = ChapterOf(u)
        /\ frame[t].pc = "stream"

\* C3: the lecture tasks of one chapter run concurrently up to the configured
\* limit: with --threads N >= 2, while fewer than N tasks are executing a
\* queued task is not held back, a worker can start it.
C3_ConcurrentUpToThreads ==
    \A N \in ThreadCounts :
        (N >= 2 /\ queue # <<>> /\ Cardinality(Running) < N)
        => ENABLED (\E t \in LectureIds : TaskStart(t))

\* C4: no lecture task of a later chapter is submitted (and so none starts)
\* before every task of every earlier chapter has finished, with or without
\* an exception.
C4_ChaptersOneAfterAnother ==
    \A t \in LectureIds : \A u \in LectureIds :
        (ChapterOf(t) < ChapterOf(u) /\ future[u].state # "none")
        => future[t].state = "FINISHED"

\* A task of the second chapter is executing and the first chapter had tasks.
C4_Witness ==
    \E t \in LectureIds : \E u \in Running :
        /\ ChapterOf(t) < ChapterOf(u)
        /\ frame[u].pc = "stream"

\* What the last statement of a running task wrote into: a collaborator writes
\* into the target directory it is given, and os.makedirs makes the directory
\* it is given.
WriteTargets(t) == IF frame[t].call.fn = "none" THEN {} ELSE {frame[t].call.dir}

\* C5: every filesystem write of a lecture task goes to the lecture's own
\* subdirectory <chapter-dir>/<lecture-id>.
C5_WritesInOwnSubdirectory ==
    \A t \in Running : WriteTargets(t) \subseteq {LectureDir(work[t].folder_path, t)}

StreamFns == {"download_and_merge_m3u8", "download_and_merge_mpd"}

\* The stream collaborator calls a running task has made.
StreamCalls(t) == IF frame[t].call.fn \in StreamFns THEN {frame[t].call} ELSE {}

\* The task has passed the media source selection of a lecture.
Selected(t) ==
    /\ future[t].state = "RUNNING"
    /\ frame[t].class = "lecture"
    /\ frame[t].pc \in {"stream", "ret"}

\* The src values of the media sources of the given type.
SrcsOfType(t, type) ==
    {frame[t].media_sources[i].src :
        i \in {j \in 1..Len(frame[t].media_sources) : frame[t].media_sources[j].type = type}}

\* C9: a free lecture, once its source is selected: with an HLS source, the
\* only stream call is the HLS collaborator's, on an HLS source and into the
\* lecture's directory; without one, the missing-source error is logged and no
\* stream collaborator is called, whatever other sources there are.
C9_FreeLectureHLSOnly ==
    \A t \in LectureIds :
        (Selected(t) /\ frame[t].is_free) =>
            IF SrcsOfType(t, HLS) # {}
            THEN \E u \in SrcsOfType(t, HLS) :
                    StreamCalls(t) = {Call("download_and_merge_m3u8",
                                           LectureDir(work[t].folder_path, t), u,
                                           work[t].lindex, "None")}
            ELSE /\ StreamCalls(t) = {}
                 /\ ErrM3U8 \in frame[t].log

\* A free lecture with a DASH source and no HLS source has been through the
\* selection.
C9_Witness ==
    \E t \in LectureIds :
        /\ Selected(t)
        /\ frame[t].is_free
        /\ SrcsOfType(t, HLS) = {}
        /\ SrcsOfType(t, DASH) # {}

\* C10: a paid lecture, once its source is selected: with a DASH source, the
\* only stream call is the DASH collaborator's, on a DASH source, with the
\* configured key, and without a key the DRM warning is logged; without DASH
\* and with MP4, the unsupported-format error is logged and nothing is called;
\* with neither, the missing-source error is logged and nothing is called.
\* The HLS collaborator is never called.
C10_PaidLectureDASHOnly ==
    \A t \in LectureIds :
        (Selected(t) /\ ~frame[t].is_free) =>
            /\ frame[t].call.fn # "download_and_merge_m3u8"
            /\ IF SrcsOfType(t, DASH) # {}
               THEN /\ \E u \in SrcsOfType(t, DASH) :
                        StreamCalls(t) = {Call("download_and_merge_mpd",
                                               LectureDir(work[t].folder_path, t), u,
                                               work[t].lindex, key)}
                    /\ key = "None" => WarnDRM \in frame[t].log
               ELSE /\ StreamCalls(t) = {}
                    /\ IF SrcsOfType(t, MP4) # {}
                       THEN ErrMP4 \in frame[t].log /\ ErrMPD \notin frame[t].log
                       ELSE ErrMPD \in frame[t].log /\ ErrMP4 \notin frame[t].log

\* A paid lecture with a DASH and an MP4 source and no key configured: the
\* DASH collaborator is running.
C10_Witness ==
    \E t \in LectureIds :
        /\ Selected(t)
        /\ ~frame[t].is_free
        /\ frame[t].pc = "stream"
        /\ SrcsOfType(t, DASH) # {}
        /\ SrcsOfType(t, MP4) # {}
        /\ key = "None"

\* The position of the child with the given id among the children of its
\* chapter, all classes alike.
PosInChapter(t) ==
    CHOOSE j \in 1..Len(curriculum[ChapterOf(t)].children) :
        curriculum[ChapterOf(t)].children[j].id = t

\* C13: once a user interrupt has arrived while download_course is running,
\* no queued lecture task begins executing, no further lecture task is
\* submitted and no further chapter is taken up; and when the run has ended
\* after an interrupt, it ended in main()'s handler with sys.exit(0).
C13_InterruptStopsDispatch ==
    [][exc = KeyboardInterrupt =>
          /\ \A t \in LectureIds :
                ~(future[t].state = "PENDING" /\ future'[t].state = "RUNNING")
          /\ \A t \in LectureIds :
                ~(future[t].state = "none" /\ future'[t].state # "none")
          /\ chapter' = chapter
          /\ mainpc' \in {"shutdown", "interrupted"}]_vars

\* C18: when download_course has completed, the directory of every chapter of
\* the curriculum exists, a chapter without children included.
C18_ChapterDirectoriesExist ==
    mainpc = "returned" => \A c \in 1..Len(curriculum) : <<c>> \in dirs

\* C19: the chapter directory a lecture task is given carries the 1-based
\* position of its chapter in the curriculum, the prefix it is given is the
\* 1-based position of the child among all children of its chapter, and every
\* call the task makes carries them: the directory made is <position of the
\* chapter>/<id>, a collaborator's target directory lies under the chapter's
\* and its file prefix is the child's position.  This holds in every reachable
\* state, that is for every scheduling of the tasks.
C19_PrefixesArePositions ==
    \A t \in Pending \cup Running :
        /\ work[t].folder_path = <<ChapterOf(t)>>
        /\ work[t].lindex = PosInChapter(t)
        /\ t \in Running =>
              /\ frame[t].call.fn = "makedirs" =>
                    frame[t].call.dir = <<ChapterOf(t), t>>
              /\ frame[t].call.fn \in StreamFns \cup {"download_captions"} =>
                    /\ frame[t].call.prefix = PosInChapter(t)
                    /\ frame[t].call.dir[1] = ChapterOf(t)

\* The second child of the second chapter is handing its stream to a
\* collaborator.
C19_Witness ==
    \E t \in Running :
        /\ ChapterOf(t) = 2
        /\ PosInChapter(t) = 2
        /\ frame[t].call.fn \in StreamFns

\* C20: while a lecture task is queued or running, the loop variable chapter
\* is bound to the chapter the lecture is a child of, and the total a task
\* has read through its closure for the progress message is the number of
\* children of that chapter.
C20_ChapterBoundToTasksChapter ==
    \A t \in Pending \cup Running :
        /\ chapter = ChapterOf(t)
        /\ InfoLecture \in frame[t].log =>
              frame[t].total = Len(curriculum[ChapterOf(t)].children)

\* A lecture task of the second chapter has logged its progress message, and
\* the first chapter has another number of children.
C20_Witness ==
    \E t \in Running :
        /\ ChapterOf(t) = 2
        /\ InfoLecture \in frame[t].log
        /\ Len(curriculum[1].children) # Len(curriculum[2].children)
        /\ Len(curriculum[1].children) > 0

(***************************************************************************)
(* Properties of main() (under SpecMain)                                   *)
(***************************************************************************)
IsListingRequest(entry) == entry.endpoint = "curriculum"

\* The requests of the listing endpoint made so far, in order.
ListingRequests == SelectSeq(reqlog, IsListingRequest)

RECURSIVE ConcatPages(_, _)
\* The results of the pages 1..k of the chain, one after the other.
ConcatPages(srv, k) ==
    IF k = 0 THEN <<>> ELSE ConcatPages(srv, k - 1) \o PageResults(srv, k)

\* Every page read reported the same total.
TotalIsStable ==
    \A i \in 1..Len(ListingRequests) : \A j \in 1..Len(ListingRequests) :
        ListingRequests[i].count = ListingRequests[j].count

\* C11: while fetch_course_curriculum runs on a chain of P pages, the pages
\* requested so far are the pages 1..k of the chain, in chain order and once
\* each, and all_results is the concatenation of their results in page order;
\* when the loop has ended (and from then on: nothing more is requested) k is
\* P, and when every page reported the same total, the length of all_results
\* is the total the first page reported.
C11_PaginationFollowsChain ==
    runpc \in {"fetch", "organize"} =>
        LET k == Len(ListingRequests) IN
        /\ [i \in 1..k |-> ListingRequests[i].page] = [i \in 1..k |-> i]
        /\ k <= NumPages(server)
        /\ all_results = ConcatPages(server, k)
        /\ url = IF k = 0 THEN 1 ELSE PageNext(server, k)
        /\ url = 0 =>
              /\ k = NumPages(server)
              /\ TotalIsStable => Len(all_results) = ListingRequests[1].count
        /\ runpc = "organize" => url = 0 /\ results = all_results

\* The fetch has ended on a chain of two pages or more that all reported the
\* same total, and organize_curriculum is running on the items.
C11_Witness ==
    /\ runpc = "organize"
    /\ NumPages(server) >= 2
    /\ Len(ListingRequests) = NumPages(server)
    /\ TotalIsStable
    /\ Len(all_results) >= 2

\* The file the option --save stands for has been written.
Saved == InfoSaved \in runlog

\* The file the option --load stands for has been read and decoded.
Loaded == InfoLoaded \in runlog

NothingDownloaded ==
    /\ mainpc = "idle"
    /\ queue = <<>>
    /\ future = <<>>
    /\ dirs = {}

\* C14: when --load is given and the file has been looked up: a file that is
\* not there ends the run with the not-located error, and a file whose text
\* does not decode to a list of chapters, each with its children, ends the
\* run with the malformed-file error; either way before download_course is
\* entered.
C14_BadCacheIsFatal ==
    (args.load # "None" /\ files[PathOf(args.load)].exists # "unknown") =>
        LET file == files[PathOf(args.load)] IN
        /\ file.exists = "no" =>
              /\ runpc = "exit1"
              /\ ErrNotLocated \in runlog
              /\ NothingDownloaded
        /\ (file.exists = "yes"
            /\ (~JsonLoad(file.text).ok \/ ~IsCurriculum(JsonLoad(file.text).val))) =>
              /\ runpc = "exit1"
              /\ ErrMalformed \in runlog
              /\ NothingDownloaded

\* The request of a page of the listing failed, or the page carried the
\* not-found marker.
PageFailed(entry) ==
    /\ IsListingRequest(entry)
    /\ entry.transport = "failed" \/ entry.detail = "Not found."

\* C15: when a page of the listing carried the not-found marker or its
\* request failed, the process has terminated, nothing was requested after
\* that page (the page itself was requested once), and the items accumulated
\* before it were not given to organize_curriculum, not saved and not
\* downloaded.
C15_FetchFailureIsFatal ==
    \A i \in 1..Len(reqlog) : PageFailed(reqlog[i]) =>
        /\ runpc = "exit1"
        /\ i = Len(reqlog)
        /\ \A j \in 1..(i - 1) :
              IsListingRequest(reqlog[j]) => reqlog[j].page # reqlog[i].page
        /\ orgpc = "idle" /\ results = <<>> /\ curriculum = <<>>
        /\ course_curriculum.t = "string"
        /\ ~Saved /\ \A p \in Paths : files[p].exists = "unknown"
        /\ NothingDownloaded

\* The second page of a chain failed after the first page had handed out an
\* item.
C15_Witness ==
    /\ Len(ListingRequests) >= 2
    /\ PageFailed(reqlog[Len(reqlog)])
    /\ Len(all_results) >= 1
    /\ runpc = "exit1"

\* C16: every call of Udemy.request is one attempt, and a call whose
\* transport failed ended with an error delivered to the caller, not with a
\* returned value.
C16_RequestFailsWithError ==
    \A i \in 1..Len(reqlog) :
        /\ reqlog[i].call.attempts = 1
        /\ reqlog[i].transport = "failed" => reqlog[i].call.outcome = "raised"

\* C17: when --load is given, the listing endpoint is never requested and
\* organize_curriculum never runs; once the file is decoded,
\* course_curriculum is the value decoded from it, unchanged; the text
\* --save writes is its dump; and download_course walks that same value.
C17_LoadBypassesFetch ==
    args.load # "None" =>
        /\ runpc \notin {"fetch", "organize"}
        /\ ListingRequests = <<>>
        /\ orgpc = "idle" /\ results = <<>>
        /\ server = NoServer
        /\ Loaded =>
              /\ course_curriculum = JsonLoad(files[PathOf(args.load)].text).val
              /\ Saved => files[PathOf(args.save)].text = JsonDump(course_curriculum)
              /\ (mainpc # "idle" /\ Walkable(course_curriculum)) =>
                    curriculum = Chapters(course_curriculum)
        /\ ~Loaded => course_curriculum.t = "string" /\ mainpc = "idle"

\* A curriculum loaded from the file of --load has been saved to another file
\* and a lecture task of it is running.
C17_Witness ==
    /\ args.load # "None"
    /\ args.save # "None"
    /\ args.load # args.save
    /\ Loaded
    /\ Saved
    /\ \E t \in Running : frame[t].pc = "stream"

(***************************************************************************)
(* Properties of organize_curriculum (under SpecOrg)                       *)
(***************************************************************************)
\* The position in results of the item with the given id.
InputIndex(id) == CHOOSE i \in 1..Len(results) : results[i].id = id

IsChapterItem(item) == item.class = "chapter"

\* The items of results the loop has been through.
Processed == 1..(oi - 1)

\* The item at position i is a lecture or practice item with no chapter item
\* before it.
Orphan(i) ==
    /\ results[i].class \in {"lecture", "practice"}
    /\ \A j \in 1..(i - 1) : results[j].class # "chapter"

\* C6: the chapters come out in their input order (and when the fold has
\* returned they are exactly the chapter items of the input, in order), and
\* the children of each chapter are input items in their input order.
C6_OrderPreserved ==
    /\ \A a \in 1..Len(curriculum) : \A b \in 1..Len(curriculum) :
          a < b => InputIndex(curriculum[a].id) < InputIndex(curriculum[b].id)
    /\ \A c \in 1..Len(curriculum) :
          LET ch == curriculum[c].children IN
          /\ \A a \in 1..Len(ch) : ch[a] = results[InputIndex(ch[a].id)]
          /\ \A a \in 1..Len(ch) : \A b \in 1..Len(ch) :
                a < b => InputIndex(ch[a].id) < InputIndex(ch[b].id)
    /\ orgpc = "returned" =>
          [c \in 1..Len(curriculum) |-> curriculum[c].id]
            = [c \in 1..Len(SelectSeq(results, IsChapterItem)) |->
                  SelectSeq(results, IsChapterItem)[c].id]

\* The fold has returned two chapters or more, one of them with two children
\* or more.
C6_Witness ==
    /\ orgpc = "returned"
    /\ Len(curriculum) >= 2
    /\ \E c \in 1..Len(curriculum) : Len(curriculum[c].children) >= 2

\* C7 as stated: the lecture count reported is the number of lecture-class
\* items of the input.
C7_CountsEveryLecture ==
    orgpc = "returned" =>
        total_lectures = Cardinality({i \in 1..Len(results) : results[i].class = "lecture"})

\* C7 as amended: the lecture count is the number of lecture-class items that
\* come after the first chapter item, among the items the loop has been
\* through (all of them when the fold has returned); practice items and
\* lecture items before every chapter are not counted.
C7_CountsAttachedLectures ==
    total_lectures =
        Cardinality({i \in Processed : results[i].class = "lecture" /\ ~Orphan(i)})

\* The fold has returned on an input with a lecture before every chapter, a
\* lecture under a chapter and a practice item under a chapter.
C7_Witness ==
    /\ orgpc = "returned"
    /\ \E i \in 1..Len(results) : results[i].class = "lecture" /\ Orphan(i)
    /\ \E i \in 1..Len(results) : results[i].class = "lecture" /\ ~Orphan(i)
    /\ \E i \in 1..Len(results) : results[i].class = "practice" /\ ~Orphan(i)

\* C8: at every step, every child sits in the chapter opened last before it
\* in the input; an item before every chapter is in no chapter, was reported
\* once, and no chapter was made for it: the chapters are the chapter items
\* the loop has been through.
C8_AttachedToOpenChapter ==
    /\ \A c \in 1..Len(curriculum) : \A a \in 1..Len(curriculum[c].children) :
          LET ci == InputIndex(curriculum[c].id)
              ai == InputIndex(curriculum[c].children[a].id)
          IN  /\ ci < ai
              /\ \A j \in (ci + 1)..(ai - 1) : results[j].class # "chapter"
    /\ \A i \in Processed : Orphan(i) =>
          \A c \in 1..Len(curriculum) : \A a \in 1..Len(curriculum[c].children) :
              curriculum[c].children[a].id # results[i].id
    /\ \A i \in Processed : (results[i].class \in {"lecture", "practice"} /\ ~Orphan(i)) =>
          \E c \in 1..Len(curriculum) : \E a \in 1..Len(curriculum[c].children) :
              curriculum[c].children[a].id = results[i].id
    /\ warnings = Cardinality({i \in Processed : Orphan(i)})
    /\ Len(curriculum) = Cardinality({i \in Processed : results[i].class = "chapter"})

\* An item before every chapter has been dropped, and a child has been
\* attached to the second chapter.
C8_Witness ==
    /\ warnings >= 1
    /\ Len(curriculum) >= 2
    /\ Len(curriculum[2].children) >= 1
    /\ Len(curriculum[1].children) >= 1

====
